---- MODULE Spec2Model ----
(***************************************************************************)
(* Model of src/main.py: the MultiLevelBook document hierarchy, the        *)
(* TextBookParser.read line classifier / structure builder, and the part   *)
(* of TxtToEpubConverter.convert that consumes the parse result.           *)
(*                                                                         *)
(* Text is modelled as a sequence of characters, one string per character. *)
(* The CJK characters of the source are written in pinyin:                 *)
(*   "di" U+7B2C   "juan" U+5377   "zhang" U+7AE0   "hui" U+56DE            *)
(*   "jie" U+8282  "bu" U+90E8     "ji" U+96C6      "pian" U+7BC7           *)
(*   "ji2" U+8F91  "yi" U+4E00     "er" U+4E8C      "mo" U+9ED8             *)
(*   "ren" U+8BA4  "kai" U+5F00    "u3000" U+3000 (full-width space)        *)
(***************************************************************************)
EXTENDS Integers, Sequences, FiniteSets, TLC

VARIABLES
    lines,      \* the raw lines `for line in file` has yielded so far
    pc,         \* position in convert()/read()
    volumes,    \* multi_level_book.volumes
    ret,        \* what read() returned: "Pending", "None" or "Book"
    call,       \* the most recent step applied to the hierarchy
    html,       \* number of chapter HTML files in the output folder
    epub,       \* whether the EPUB file has been written
    cleaned     \* whether cleanup() has run

vars == <<lines, pc, volumes, ret, call, html, epub, cleaned>>

(***************************************************************************)
(* Bounds of the model.                                                    *)
(***************************************************************************)
MaxLines == 4

MaxNodes == 5

(***************************************************************************)
(* Constants of the program.                                               *)
(***************************************************************************)
DEFAULT_VOLUME_TITLE == <<"mo", "ren", "juan">>

DEFAULT_CHAPTER_TITLE == <<"kai", "pian">>

\* Characters str.strip() removes and the regex class [\s u3000] matches.
Whitespace == {" ", "tab", "u3000"}

\* [di juan] : the first character class of TITLE_PATTERN_SIMPLE
LeadChars == {"di", "juan"}

\* [0-9 and the Chinese numerals] : the numeral class of TITLE_PATTERN_SIMPLE
NumeralChars == {"0", "1", "2", "yi", "er", "shi", "bai", "qian", "liang", "ling"}

\* [zhang hui bu jie ji juan pian ji2] : the unit class of TITLE_PATTERN_SIMPLE
UnitChars == {"zhang", "hui", "bu", "jie", "ji", "juan", "pian", "ji2"}

Last(s) == s[Len(s)]

Front(s) == SubSeq(s, 1, Len(s) - 1)

(***************************************************************************)
(* str.strip()                                                             *)
(***************************************************************************)
RECURSIVE lstrip(_)
lstrip(s) ==
    IF s # <<>> /\ Head(s) \in Whitespace THEN lstrip(Tail(s)) ELSE s

RECURSIVE rstrip(_)
rstrip(s) ==
    IF s # <<>> /\ Last(s) \in Whitespace THEN rstrip(Front(s)) ELSE s

strip(s) == rstrip(lstrip(s))

(***************************************************************************)
(* re.match(TITLE_PATTERN_SIMPLE, line):                                   *)
(*   ^[\s u3000]* [di juan] [numerals]+ [units] [\s u3000]* .*             *)
(* The numeral and unit classes are disjoint, so the greedy numeral run    *)
(* must be followed directly by a unit character; the tail always matches. *)
(***************************************************************************)
RECURSIVE NumeralRun(_)
NumeralRun(s) ==
    IF s # <<>> /\ Head(s) \in NumeralChars THEN 1 + NumeralRun(Tail(s)) ELSE 0

TITLE_PATTERN_SIMPLE(line) ==
    LET t == lstrip(line)
    IN  /\ t # <<>>
        /\ Head(t) \in LeadChars
        /\ LET n == NumeralRun(Tail(t))
           IN  /\ n >= 1
               /\ Len(t) >= n + 2
               /\ t[n + 2] \in UnitChars

Contains(c, s) == \E i \in 1..Len(s) : s[i] = c

\* Mutant: the heuristic without its chapter-unit exclusions.
IsVolumeTitle_JuanOnly(title_text) == Contains("juan", title_text)

\* The volume / chapter heuristic of read(), line 199.
IsVolumeTitle(title_text) ==
    /\ Contains("juan", title_text)
    /\ ~Contains("zhang", title_text)
    /\ ~Contains("hui", title_text)
    /\ ~Contains("jie", title_text)

(***************************************************************************)
(* MultiLevelBook                                                          *)
(***************************************************************************)
Chapter(title, content) == [title |-> title, content |-> content]

Volume(title, chapters) == [title |-> title, chapters |-> chapters]

_create_default_structure(v) ==
    IF v = <<>>
    THEN <<Volume(DEFAULT_VOLUME_TITLE, <<Chapter(DEFAULT_CHAPTER_TITLE, <<>>)>>)>>
    ELSE v

\* MultiLevelBook.__init__
NewBook == _create_default_structure(<<>>)

\* Mutant: the pristine test without its look at the seeded chapter.
IsInitialDefaultVolume_TitleOnly(v) ==
    Len(v) = 1 /\ v[1].title = DEFAULT_VOLUME_TITLE

_is_initial_default_volume_empty(v) ==
    /\ Len(v) = 1
    /\ v[1].title = DEFAULT_VOLUME_TITLE
    /\ Len(v[1].chapters) = 1
    /\ v[1].chapters[1].title = DEFAULT_CHAPTER_TITLE
    /\ v[1].chapters[1].content = <<>>

\* Mutant: the chapterless test looking at the volume list instead.
IsLastVolumeChapterless_NoVolumes(v) == v = <<>>

_is_last_volume_chapterless(v) ==
    v # <<>> /\ Last(v).chapters = <<>>

\* Mutant: the placeholder test without its look at the content.
IsLastChapterDefault_TitleOnly(v) ==
    IF v # <<>> /\ Last(v).chapters # <<>>
    THEN Last(Last(v).chapters).title = DEFAULT_CHAPTER_TITLE
    ELSE FALSE

_is_last_chapter_default_and_empty(v) ==
    IF v # <<>> /\ Last(v).chapters # <<>>
    THEN LET last_chapter == Last(Last(v).chapters)
         IN  last_chapter.title = DEFAULT_CHAPTER_TITLE /\ last_chapter.content = <<>>
    ELSE FALSE

add_volume(v, title) ==
    IF _is_initial_default_volume_empty(v)
    THEN [v EXCEPT ![1].title = title]
    ELSE Append(v, Volume(title, <<>>))

add_chapter_to_last_volume(v, title, content) ==
    LET v1 == IF v = <<>> THEN _create_default_structure(v) ELSE v
        n == Len(v1)
        chs == v1[n].chapters
    IN  IF chs = <<>> \/ _is_last_chapter_default_and_empty(v1)
        THEN IF chs # <<>>
             THEN [v1 EXCEPT ![n].chapters[Len(chs)] = Chapter(title, content)]
             ELSE [v1 EXCEPT ![n].chapters = Append(chs, Chapter(title, content))]
        ELSE [v1 EXCEPT ![n].chapters = Append(chs, Chapter(title, content))]

\* The hierarchy add_content_to_last_chapter reaches just before its try block.
ContentTarget(v) ==
    LET v1 == IF v = <<>> THEN _create_default_structure(v) ELSE v
    IN  IF _is_last_volume_chapterless(v1)
        THEN add_chapter_to_last_volume(v1, DEFAULT_CHAPTER_TITLE, <<>>)
        ELSE v1

\* Whether volumes[-1]['chapters'][-1] raises IndexError in the try block.
ContentIndexError(v) ==
    ContentTarget(v) = <<>> \/ Last(ContentTarget(v)).chapters = <<>>

\* Mutant: the line appended to the first chapter of the last volume.
AppendLine_FirstChapter(v, line) ==
    [v EXCEPT ![Len(v)].chapters[1].content = Append(@, line)]

AppendLine(v, line) ==
    [v EXCEPT ![Len(v)].chapters[Len(v[Len(v)].chapters)].content = Append(@, line)]

add_content_to_last_chapter(v, line) ==
    IF ~ContentIndexError(v)
    THEN AppendLine(ContentTarget(v), line)
    ELSE LET v3 == _create_default_structure(ContentTarget(v))
         IN  IF v3 # <<>> /\ Last(v3).chapters # <<>>
             THEN AppendLine(v3, line)
             ELSE v3

(***************************************************************************)
(* TextBookParser.read                                                     *)
(***************************************************************************)
\* Mutant: a volume boundary that removes nothing.
RemoveTrailingChapter_Never(v) == v

\* Mutant: the removal at a volume boundary without its emptiness test.
RemoveTrailingChapter_Always(v) ==
    IF v # <<>> /\ Last(v).chapters # <<>>
    THEN [v EXCEPT ![Len(v)].chapters = Front(@)]
    ELSE v

\* Lines 202-204: drop the last chapter of the last volume when it is empty.
RemoveTrailingEmptyChapter(v) ==
    IF v # <<>> /\ Last(v).chapters # <<>> /\ Last(Last(v).chapters).content = <<>>
    THEN [v EXCEPT ![Len(v)].chapters = Front(@)]
    ELSE v

\* Mutant: the chapter half of the final check without its sentinel-title test.
PruneChapter_AnyTitle(v) ==
    IF v # <<>> /\ Last(v).chapters # <<>> /\ Last(Last(v).chapters).content = <<>>
    THEN [v EXCEPT ![Len(v)].chapters = Front(@)]
    ELSE v

\* Lines 216-222: the chapter half of the final check.
PruneChapter(v) ==
    IF /\ v # <<>>
       /\ Last(v).chapters # <<>>
       /\ Last(Last(v).chapters).content = <<>>
       /\ Last(Last(v).chapters).title \in {DEFAULT_CHAPTER_TITLE, DEFAULT_VOLUME_TITLE}
    THEN [v EXCEPT ![Len(v)].chapters = Front(@)]
    ELSE v

\* Mutant: the volume half of the final check without its `> 1` guard.
PruneVolume_NoGuard(v) ==
    IF v # <<>> /\ Last(v).chapters = <<>> /\ Last(v).title = DEFAULT_VOLUME_TITLE
    THEN Front(v)
    ELSE v

\* Mutant: the volume half of the final check without its sentinel-title test.
PruneVolume_AnyTitle(v) ==
    IF v # <<>> /\ Last(v).chapters = <<>> /\ Len(v) > 1
    THEN Front(v)
    ELSE v

\* Lines 223-226: the volume half of the final check.
PruneVolume(v) ==
    IF /\ v # <<>>
       /\ Last(v).chapters = <<>>
       /\ Last(v).title = DEFAULT_VOLUME_TITLE
       /\ Len(v) > 1
    THEN Front(v)
    ELSE v

\* Lines 215-226: the final check of read().
Prune(v) == PruneVolume(PruneChapter(v))

\* The class read() gives a raw line (lines 188-213).
LineClass(raw) ==
    LET line == strip(raw)
    IN  IF line = <<>> THEN "blank"
        ELSE IF TITLE_PATTERN_SIMPLE(line)
             THEN IF IsVolumeTitle(line) THEN "volume_title" ELSE "chapter_title"
             ELSE "content"

\* The body of the `for line in file` loop (lines 188-213).
ProcessLine(v, raw) ==
    LET line == strip(raw)
    IN  IF line = <<>> THEN v
        ELSE IF TITLE_PATTERN_SIMPLE(line)
             THEN IF IsVolumeTitle(line)
                  THEN add_volume(RemoveTrailingEmptyChapter(v), line)
                  ELSE add_chapter_to_last_volume(v, line, <<>>)
             ELSE add_content_to_last_chapter(v, line)

NoCall == [op |-> "none", arg |-> <<>>, content |-> <<>>]

Call(op, arg, content) == [op |-> op, arg |-> arg, content |-> content]

\* Raw lines the input file may hold.
Lines ==
    { <<>>,                                    \* empty
      <<" ", "u3000">>,                        \* blank
      <<"di", "yi", "juan">>,                  \* volume title
      <<"u3000", "juan", "2", "juan", "x", " ">>, \* padded volume title
      <<"di", "yi", "zhang">>,                 \* chapter title
      <<"di", "er", "hui", "juan">>,           \* chapter unit, then juan
      <<"di", "yi", "juan", "zhang">>,         \* juan unit, then zhang
      <<"di", "yi", "bu", "juan">>,            \* bu unit, juan in the suffix
      <<" ", "a", " ", "b", "tab">>,           \* content
      <<"di", "juan">> }                       \* content: no numeral

\* One iteration of the loop: the file yields `raw`.
ReadLine(raw) ==
    /\ pc = "read"
    /\ Len(lines) < MaxLines
    /\ lines' = Append(lines, raw)
    /\ volumes' = ProcessLine(volumes, raw)
    /\ call' = Call(LineClass(raw), strip(raw), <<>>)
    /\ UNCHANGED <<pc, ret, html, epub, cleaned>>

\* The file is exhausted: final check, then `return multi_level_book`.
ReadEOF ==
    /\ pc = "read"
    /\ volumes' = Prune(volumes)
    /\ ret' = "Book"
    /\ pc' = "returned"
    /\ call' = Call("prune", <<>>, <<>>)
    /\ UNCHANGED <<lines, html, epub, cleaned>>

InitRead ==
    /\ lines = <<>>
    /\ pc = "read"
    /\ volumes = NewBook
    /\ ret = "Pending"
    /\ call = NoCall
    /\ html = 0
    /\ epub = FALSE
    /\ cleaned = FALSE

NextRead ==
    \/ \E raw \in Lines : ReadLine(raw)
    \/ ReadEOF

\* read() on a file that opens and reads without error.
Spec == InitRead /\ [][NextRead]_vars

(***************************************************************************)
(* TxtToEpubConverter.convert around the parse, with the failures of the   *)
(* file system as choices of the environment.                              *)
(***************************************************************************)
\* Raw lines of the files convert() is run on.
ConvLines ==
    { <<"di", "yi", "juan">>,
      <<"di", "yi", "zhang">>,
      <<" ", "a", " ", "b", "tab">> }

RECURSIVE NumChapters(_)
NumChapters(v) ==
    IF v = <<>> THEN 0 ELSE Len(Head(v).chapters) + NumChapters(Tail(v))

\* Step 1: os.makedirs succeeds, or raises OSError and convert() returns.
Makedirs ==
    /\ pc = "makedirs"
    /\ pc' \in {"parse", "end"}
    /\ UNCHANGED <<lines, volumes, ret, call, html, epub, cleaned>>

\* read(): open() succeeds, or raises inside the try block.
OpenFile ==
    /\ pc = "parse"
    /\ pc' \in {"read", "except"}
    /\ UNCHANGED <<lines, volumes, ret, call, html, epub, cleaned>>

\* read(): reading or decoding the next line raises inside the try block.
ReadError ==
    /\ pc = "read"
    /\ pc' = "except"
    /\ UNCHANGED <<lines, volumes, ret, call, html, epub, cleaned>>

\* Mutant: an except clause that hands back the hierarchy built so far.
ReadExcept_ReturnsPartial ==
    /\ pc = "except"
    /\ ret' = "Book"
    /\ pc' = "returned"
    /\ UNCHANGED <<lines, volumes, call, html, epub, cleaned>>

\* read(): the except clauses, both `return None`.
ReadExcept ==
    /\ pc = "except"
    /\ ret' = "None"
    /\ pc' = "returned"
    /\ UNCHANGED <<lines, volumes, call, html, epub, cleaned>>

\* Step 2: `if book_structure is None`: cleanup and return.
CheckParse ==
    /\ pc = "returned"
    /\ pc' = IF ret = "None" THEN "cleanup_abort" ELSE "html"
    /\ UNCHANGED <<lines, volumes, ret, call, html, epub, cleaned>>

\* Step 3: save_chapters_as_html writes one file per chapter; a write may
\* fail, and then the conversion is aborted through cleanup.
SaveHtml ==
    /\ pc = "html"
    /\ IF ret = "None" \/ volumes = <<>>
       THEN pc' = "cleanup_abort" /\ html' = html
       ELSE \E w \in 0..NumChapters(volumes), success \in BOOLEAN :
                /\ success => w = NumChapters(volumes)
                /\ html' = w
                /\ pc' = IF success THEN "epub" ELSE "cleanup_abort"
    /\ UNCHANGED <<lines, volumes, ret, call, epub, cleaned>>

\* Step 10: epub.write_epub succeeds, or raises and convert() returns
\* without cleanup.
WriteEpub ==
    /\ pc = "epub"
    /\ \/ epub' = TRUE /\ pc' = "cleanup"
       \/ epub' = epub /\ pc' = "end"
    /\ UNCHANGED <<lines, volumes, ret, call, html, cleaned>>

\* cleanup(): shutil.rmtree removes the output folder, or raises and is logged.
Cleanup ==
    /\ pc \in {"cleanup", "cleanup_abort"}
    /\ cleaned' = TRUE
    /\ html' \in {0, html}
    /\ pc' = "end"
    /\ UNCHANGED <<lines, volumes, ret, call, epub>>

InitConvert ==
    /\ lines = <<>>
    /\ pc = "makedirs"
    /\ volumes = NewBook
    /\ ret = "Pending"
    /\ call = NoCall
    /\ html = 0
    /\ epub = FALSE
    /\ cleaned = FALSE

NextConvert ==
    \/ Makedirs
    \/ OpenFile
    \/ \E raw \in ConvLines : ReadLine(raw)
    \/ ReadEOF
    \/ ReadError
    \/ ReadExcept
    \/ CheckParse
    \/ SaveHtml
    \/ WriteEpub
    \/ Cleanup

\* convert() on one file.
SpecConvert == InitConvert /\ [][NextConvert]_vars

(***************************************************************************)
(* MultiLevelBook driven directly: any sequence of its operations, of the  *)
(* builder's removal of a trailing empty chapter and of the final check.   *)
(***************************************************************************)
ApiTitles ==
    { DEFAULT_VOLUME_TITLE, DEFAULT_CHAPTER_TITLE,
      <<"di", "yi", "juan">>, <<"di", "yi", "zhang">> }

ApiLines == { <<"a">>, <<"b">> }

\* The content argument of add_chapter_to_last_volume; <<>> when omitted.
ApiContents == { <<>>, <<<<"a">>>> }

RECURSIVE NumLines(_)
NumLines(chs) ==
    IF chs = <<>> THEN 0 ELSE Len(Head(chs).content) + NumLines(Tail(chs))

\* Volumes, chapters and content lines of a hierarchy.
RECURSIVE Nodes(_)
Nodes(v) ==
    IF v = <<>> THEN 0
    ELSE 1 + Len(Head(v).chapters) + NumLines(Head(v).chapters) + Nodes(Tail(v))

ApiAddVolume(title) ==
    /\ pc = "api"
    /\ Nodes(volumes) < MaxNodes
    /\ volumes' = add_volume(volumes, title)
    /\ call' = Call("add_volume", title, <<>>)
    /\ UNCHANGED <<lines, pc, ret, html, epub, cleaned>>

ApiAddChapter(title, content) ==
    /\ pc = "api"
    /\ Nodes(volumes) < MaxNodes
    /\ volumes' = add_chapter_to_last_volume(volumes, title, content)
    /\ call' = Call("add_chapter_to_last_volume", title, content)
    /\ UNCHANGED <<lines, pc, ret, html, epub, cleaned>>

ApiAddContent(line) ==
    /\ pc = "api"
    /\ Nodes(volumes) < MaxNodes
    /\ volumes' = add_content_to_last_chapter(volumes, line)
    /\ call' = Call("add_content_to_last_chapter", line, <<>>)
    /\ UNCHANGED <<lines, pc, ret, html, epub, cleaned>>

ApiRemoveTrailing ==
    /\ pc = "api"
    /\ volumes' = RemoveTrailingEmptyChapter(volumes)
    /\ call' = Call("remove_trailing", <<>>, <<>>)
    /\ UNCHANGED <<lines, pc, ret, html, epub, cleaned>>

ApiPrune ==
    /\ pc = "api"
    /\ volumes' = Prune(volumes)
    /\ call' = Call("prune", <<>>, <<>>)
    /\ UNCHANGED <<lines, pc, ret, html, epub, cleaned>>

InitAPI ==
    /\ lines = <<>>
    /\ pc = "api"
    /\ volumes = NewBook
    /\ ret = "Pending"
    /\ call = NoCall
    /\ html = 0
    /\ epub = FALSE
    /\ cleaned = FALSE

NextAPI ==
    \/ \E title \in ApiTitles : ApiAddVolume(title)
    \/ \E title \in ApiTitles, content \in ApiContents : ApiAddChapter(title, content)
    \/ \E line \in ApiLines : ApiAddContent(line)
    \/ ApiRemoveTrailing
    \/ ApiPrune

SpecAPI == InitAPI /\ [][NextAPI]_vars

(***************************************************************************)
(* Vocabulary of the properties.                                           *)
(***************************************************************************)
RECURSIVE FlattenChapters(_)
FlattenChapters(chs) ==
    IF chs = <<>> THEN <<>> ELSE Head(chs).content \o FlattenChapters(Tail(chs))

\* The content lines of a hierarchy, in hierarchy order.
RECURSIVE AllContent(_)
AllContent(v) ==
    IF v = <<>> THEN <<>> ELSE FlattenChapters(Head(v).chapters) \o AllContent(Tail(v))

\* The trimmed non-blank, non-marker lines of an input, in input order.
RECURSIVE InputContent(_)
InputContent(ls) ==
    IF ls = <<>> THEN <<>>
    ELSE (IF LineClass(Head(ls)) = "content" THEN <<strip(Head(ls))>> ELSE <<>>)
         \o InputContent(Tail(ls))

\* Positions of the input holding a line of class `cls`.
LinesOfClass(ls, cls) == {i \in 1..Len(ls) : LineClass(ls[i]) = cls}

\* The section of the input a position lies in: 1 before the first
\* volume-title line, and one more from each volume-title line on.
SectionOf(ls, i) == 1 + Cardinality({j \in 1..i : LineClass(ls[j]) = "volume_title"})

\* Positions of section k holding a line of class `cls`.
SectionLines(ls, k, cls) == {i \in LinesOfClass(ls, cls) : SectionOf(ls, i) = k}

Finished == ret = "Book"

\* C1: in every state of a parse, and so in the finished hierarchy, the
\* content lines of all chapters in hierarchy order are exactly the trimmed
\* non-blank, non-marker lines read so far, in input order.
C1_ContentPreserved == AllContent(volumes) = InputContent(lines)

\* C1 witness: a finished parse of two different content lines that crossed
\* a volume boundary and a chapter title.
C1_Witness ==
    /\ Finished
    /\ Len(volumes) >= 2
    /\ Len(AllContent(volumes)) = 2
    /\ AllContent(volumes)[1] # AllContent(volumes)[2]
    /\ LinesOfClass(lines, "chapter_title") # {}

\* Whether the first non-blank line of the input is a volume title.
FirstMarkerIsVolume(ls) ==
    \E i \in LinesOfClass(ls, "volume_title") :
        \A j \in 1..(i - 1) : LineClass(ls[j]) = "blank"

FirstVolumeTitle(ls) ==
    strip(ls[CHOOSE i \in LinesOfClass(ls, "volume_title") :
                 \A j \in LinesOfClass(ls, "volume_title") : i <= j])

\* C2 (as claimed): when the first structural marker of the input is a volume
\* title with no content line before it, the first Volume of the finished
\* hierarchy bears that title and no chapterless default-titled Volume remains.
C2_RenamedInPlace ==
    (Finished /\ FirstMarkerIsVolume(lines)) =>
        /\ volumes[1].title = FirstVolumeTitle(lines)
        /\ \A k \in 1..Len(volumes) :
               ~(volumes[k].title = DEFAULT_VOLUME_TITLE /\ volumes[k].chapters = <<>>)

\* C3 (as claimed): every Volume of the finished hierarchy has a Chapter.
C3_EveryVolumeHasChapter ==
    Finished => \A k \in 1..Len(volumes) : volumes[k].chapters # <<>>

\* C3 (amended): the finished hierarchy has a Volume, and a Volume without
\* Chapters is one whose section of the input holds no content line and at
\* most one chapter-title line (none, for the last Volume).
C3_ChapterlessOnlyWithoutContent ==
    Finished =>
        /\ Len(volumes) >= 1
        /\ \A k \in 1..Len(volumes) :
               volumes[k].chapters = <<>> =>
                   /\ SectionLines(lines, k, "content") = {}
                   /\ Cardinality(SectionLines(lines, k, "chapter_title"))
                          <= (IF k = Len(volumes) THEN 0 ELSE 1)

\* C3 witness: a finished hierarchy with a chapterless Volume that is not the
\* last, whose section held a chapter title, beside a Volume with content.
C3_Witness ==
    /\ Finished
    /\ \E k \in 1..(Len(volumes) - 1) :
           /\ volumes[k].chapters = <<>>
           /\ SectionLines(lines, k, "chapter_title") # {}
    /\ AllContent(volumes) # <<>>

\* C5: a line blank after trimming changes nothing; a marker line with juan
\* and none of zhang, hui, jie becomes the title of the last Volume; every
\* other marker line becomes the title of the last Chapter of the last
\* Volume; every remaining line becomes the last content line of that Chapter.
C5_Classification ==
    [][\A raw \in Lines :
          lines' = Append(lines, raw) =>
              LET line == strip(raw)
                  marker == TITLE_PATTERN_SIMPLE(line)
                  volume == /\ Contains("juan", line)
                            /\ \A c \in {"zhang", "hui", "jie"} : ~Contains(c, line)
              IN  /\ line = <<>> => volumes' = volumes /\ call'.op = "blank"
                  /\ (line # <<>> /\ marker /\ volume) =>
                         /\ call'.op = "volume_title"
                         /\ Last(volumes').title = line
                         /\ AllContent(volumes') = AllContent(volumes)
                  /\ (line # <<>> /\ marker /\ ~volume) =>
                         /\ call'.op = "chapter_title"
                         /\ Len(volumes') = Len(volumes)
                         /\ Last(Last(volumes').chapters).title = line
                         /\ AllContent(volumes') = AllContent(volumes)
                  /\ (line # <<>> /\ ~marker) =>
                         /\ call'.op = "content"
                         /\ Len(volumes') = Len(volumes)
                         /\ Last(Last(volumes').chapters).content # <<>>
                         /\ Last(Last(Last(volumes').chapters).content) = line
                         /\ AllContent(volumes') = Append(AllContent(volumes), line)
      ]_vars

\* C5 witness: lines holding juan together with a chapter-unit character, in
\* both orders, were read and the last one is the title of the last Chapter.
C5_Witness ==
    /\ call.op = "chapter_title"
    /\ Contains("juan", call.arg)
    /\ Last(Last(volumes).chapters).title = call.arg
    /\ \E i, j \in LinesOfClass(lines, "chapter_title") :
           /\ Contains("zhang", lines[i]) /\ Contains("juan", lines[i])
           /\ Contains("hui", lines[j]) /\ Contains("juan", lines[j])
    /\ LinesOfClass(lines, "volume_title") # {}

\* C6: the final check applied to the finished hierarchy changes nothing.
C6_PruneIdempotent == Finished => Prune(volumes) = volumes

\* C6 witness: a finished hierarchy from which the final check removed the
\* seeded Chapter.
C6_Witness ==
    /\ Finished
    /\ LinesOfClass(lines, "volume_title") = {}
    /\ volumes[1].chapters = <<>>

\* C7: an input with no non-blank line finishes as exactly one Volume with
\* the default volume title and no Chapter.
C7_BlankInput ==
    (Finished /\ \A i \in 1..Len(lines) : strip(lines[i]) = <<>>) =>
        volumes = <<Volume(DEFAULT_VOLUME_TITLE, <<>>)>>

\* C7 witness: a finished parse of an input of blank lines only.
C7_Witness ==
    /\ Finished
    /\ Len(lines) >= 2
    /\ \A i \in 1..Len(lines) : strip(lines[i]) = <<>>

\* The next non-blank line after position i is a volume title.
FollowedByVolumeTitle(ls, i) ==
    \E j \in (i + 1)..Len(ls) :
        /\ LineClass(ls[j]) = "volume_title"
        /\ \A m \in (i + 1)..(j - 1) : LineClass(ls[m]) = "blank"

\* C8: a Volume created from a volume-title line directly followed by another
\* volume-title line is in the finished hierarchy with its title and no
\* Chapter; and no step removes or retitles a Volume that is not the last one
\* or whose title is not the default volume title.
C8_ChapterlessVolumeSurvives ==
    /\ [](Finished =>
            \A i \in LinesOfClass(lines, "volume_title") :
                FollowedByVolumeTitle(lines, i) =>
                    /\ SectionOf(lines, i) <= Len(volumes)
                    /\ volumes[SectionOf(lines, i)] = Volume(strip(lines[i]), <<>>))
    /\ [][\A k \in 1..Len(volumes) :
              (k < Len(volumes) \/ volumes[k].title # DEFAULT_VOLUME_TITLE) =>
                  /\ k <= Len(volumes')
                  /\ volumes'[k].title = volumes[k].title]_vars

\* C8 witness: a finished parse in which a volume title directly followed a
\* volume title, blank lines aside, and the last volume stayed chapterless.
C8_Witness ==
    /\ Finished
    /\ \E i \in LinesOfClass(lines, "volume_title") :
           /\ FollowedByVolumeTitle(lines, i)
           /\ LineClass(lines[i + 1]) = "blank"
    /\ Last(volumes).chapters = <<>>
    /\ Len(volumes) >= 3

\* C4: under any sequence of add_volume, add_chapter_to_last_volume,
\* add_content_to_last_chapter, the removal of a trailing empty chapter and
\* the final check, the hierarchy holds at least one Volume.
C4_NeverEmpty == Len(volumes) >= 1

\* C4 witness: the final check has run on a hierarchy whose only Volume is
\* default-titled and chapterless, and the Volume is still there.
C4_Witness ==
    /\ call.op = "prune"
    /\ volumes = <<Volume(DEFAULT_VOLUME_TITLE, <<>>)>>

\* C9: an error raised by open() or while reading makes read() return None;
\* a hierarchy is returned only by the final check at the end of the input;
\* and after None convert() goes straight to cleanup, with no chapter HTML
\* file and no EPUB file written, and has run cleanup when it ends.
C9_FailsAtomically ==
    /\ [][pc = "except" => (ret' = "None" /\ pc' = "returned")]_vars
    /\ [][ret' # ret => (pc = "read" /\ call'.op = "prune") \/ ret' = "None"]_vars
    /\ [][(pc = "returned" /\ ret = "None") => pc' = "cleanup_abort"]_vars
    /\ [](ret = "None" => html = 0 /\ ~epub)
    /\ []((ret = "None" /\ pc = "end") => cleaned)

\* C9 witness: convert() has ended after read() failed with two lines
\* already built into the hierarchy.
C9_Witness ==
    /\ pc = "end"
    /\ ret = "None"
    /\ cleaned
    /\ Len(lines) >= 2
    /\ AllContent(volumes) # <<>>

\* C10: add_volume(title) on the pristine hierarchy keeps one Volume, gives it
\* the title and leaves its chapters alone; on any other hierarchy it appends
\* one Volume with the title and no Chapter and leaves the others alone.
C10_AddVolume ==
    [][call'.op = "add_volume" =>
          LET title == call'.arg
              pristine ==
                  /\ Len(volumes) = 1
                  /\ volumes[1].title = DEFAULT_VOLUME_TITLE
                  /\ volumes[1].chapters = <<Chapter(DEFAULT_CHAPTER_TITLE, <<>>)>>
          IN  IF pristine
              THEN /\ Len(volumes') = 1
                   /\ volumes'[1].title = title
                   /\ volumes'[1].chapters = volumes[1].chapters
              ELSE /\ Len(volumes') = Len(volumes) + 1
                   /\ Last(volumes') = Volume(title, <<>>)
                   /\ SubSeq(volumes', 1, Len(volumes)) = volumes
      ]_vars

\* C10 witness: add_volume has renamed the seeded Volume in place.
C10_Witness ==
    /\ call.op = "add_volume"
    /\ call.arg # DEFAULT_VOLUME_TITLE
    /\ volumes = <<Volume(call.arg, <<Chapter(DEFAULT_CHAPTER_TITLE, <<>>)>>)>>

\* C11: add_chapter_to_last_volume(title, content) overwrites the last
\* Chapter of the last Volume when that Chapter is default-titled with no
\* content, keeping the chapter count, and otherwise appends one Chapter;
\* afterwards the last Chapter of the last Volume has the given title and
\* content, and no other Chapter or Volume has changed.
C11_AddChapter ==
    [][call'.op = "add_chapter_to_last_volume" =>
          LET n == Len(volumes)
              chs == volumes[n].chapters
              chs2 == volumes'[n].chapters
              placeholder ==
                  chs # <<>> /\ Last(chs) = Chapter(DEFAULT_CHAPTER_TITLE, <<>>)
          IN  /\ Len(volumes') = n
              /\ \A k \in 1..(n - 1) : volumes'[k] = volumes[k]
              /\ volumes'[n].title = volumes[n].title
              /\ Len(chs2) = IF placeholder THEN Len(chs) ELSE Len(chs) + 1
              /\ Last(chs2) = Chapter(call'.arg, call'.content)
              /\ Front(chs2) = IF placeholder THEN Front(chs) ELSE chs
      ]_vars

\* C11 witness: add_chapter_to_last_volume, given content, has overwritten
\* the seeded Chapter.
C11_Witness ==
    /\ call.op = "add_chapter_to_last_volume"
    /\ call.content # <<>>
    /\ call.arg \notin {DEFAULT_CHAPTER_TITLE, DEFAULT_VOLUME_TITLE}
    /\ volumes = <<Volume(DEFAULT_VOLUME_TITLE, <<Chapter(call.arg, call.content)>>)>>

\* C12: in every state reached by the three operations, the removal of a
\* trailing empty chapter and the final check, add_content_to_last_chapter
\* would not raise IndexError in its try block; and each call leaves the
\* line as the final content line of the last Chapter of the last Volume,
\* having synthesized exactly one default-titled Chapter when the last Volume
\* had none, and loses or moves no other content line.
C12_AddContent ==
    /\ [](~ContentIndexError(volumes))
    /\ [][call'.op = "add_content_to_last_chapter" =>
             LET n == Len(volumes)
                 chs == volumes[n].chapters
                 chs2 == volumes'[n].chapters
                 line == call'.arg
             IN  /\ Len(volumes') = n
                 /\ \A k \in 1..(n - 1) : volumes'[k] = volumes[k]
                 /\ volumes'[n].title = volumes[n].title
                 /\ IF chs = <<>>
                    THEN chs2 = <<Chapter(DEFAULT_CHAPTER_TITLE, <<line>>)>>
                    ELSE /\ Len(chs2) = Len(chs)
                         /\ Front(chs2) = Front(chs)
                         /\ Last(chs2).title = Last(chs).title
                         /\ Last(chs2).content = Append(Last(chs).content, line)
                 /\ AllContent(volumes') = Append(AllContent(volumes), line)
         ]_vars

\* C12 witness: add_content_to_last_chapter has synthesized the default
\* Chapter in a Volume that add_volume had appended without Chapters.
C12_Witness ==
    /\ call.op = "add_content_to_last_chapter"
    /\ Len(volumes) >= 2
    /\ Last(volumes).chapters = <<Chapter(DEFAULT_CHAPTER_TITLE, <<call.arg>>)>>

\* C13: every step of a parse leaves every Volume before the last one as it
\* was, and every Chapter of the last Volume before its last Chapter as it
\* was; and the content of the hierarchy changes only by one line appended
\* to the last Chapter of the last Volume.
C13_TailOnly ==
    [][LET n == Len(volumes)
           chs == volumes[n].chapters
       IN  /\ \A k \in 1..(n - 1) :
                  k <= Len(volumes') /\ volumes'[k] = volumes[k]
           /\ n <= Len(volumes') =>
                  \A j \in 1..(Len(chs) - 1) :
                      /\ j <= Len(volumes'[n].chapters)
                      /\ volumes'[n].chapters[j] = chs[j]
           /\ AllContent(volumes') # AllContent(volumes) =>
                  /\ call'.op = "content"
                  /\ AllContent(volumes') = Append(AllContent(volumes), call'.arg)
                  /\ Last(volumes').chapters # <<>>
                  /\ Last(Last(volumes').chapters).content # <<>>
                  /\ Last(Last(Last(volumes').chapters).content) = call'.arg
      ]_vars

\* C13 witness: a content line has been appended in a second Volume whose
\* last Chapter is not its first.
C13_Witness ==
    /\ call.op = "content"
    /\ Len(volumes) >= 2
    /\ Len(Last(volumes).chapters) >= 2
    /\ Last(Last(volumes).chapters).content = <<call.arg>>

\* The chapter-title lines of section k that no content line of the section
\* follows.
TrailingChapterTitles(ls, k) ==
    {i \in SectionLines(ls, k, "chapter_title") :
        \A j \in SectionLines(ls, k, "content") : j < i}

\* C14 (as claimed): no Volume other than the last one ends with a Chapter
\* that has no content line.
C14_NoEmptyChapterAtBoundary ==
    \A k \in 1..(Len(volumes) - 1) :
        volumes[k].chapters = <<>> \/ Last(volumes[k].chapters).content # <<>>

\* C14 (amended): a Volume other than the last one ends with a Chapter that
\* has no content line only when its section of the input ended with two or
\* more chapter-title lines with no content line after them.
C14_EmptyChapterOnlyAfterTwoTitles ==
    \A k \in 1..(Len(volumes) - 1) :
        (volumes[k].chapters # <<>> /\ Last(volumes[k].chapters).content = <<>>) =>
            Cardinality(TrailingChapterTitles(lines, k)) >= 2

\* C14 witness: a volume-title line has just been processed and has removed
\* the empty Chapter of the one chapter-title line that ended the section
\* before it, leaving a Chapter with content at the boundary.
C14_Witness ==
    /\ call.op = "volume_title"
    /\ Len(volumes) >= 2
    /\ Cardinality(TrailingChapterTitles(lines, Len(volumes) - 1)) = 1
    /\ volumes[Len(volumes) - 1].chapters # <<>>
    /\ Last(volumes[Len(volumes) - 1].chapters).content # <<>>

RECURSIVE TitlesOf(_)
TitlesOf(chs) ==
    IF chs = <<>> THEN <<>> ELSE <<Head(chs).title>> \o TitlesOf(Tail(chs))

\* The chapter titles of a hierarchy, in hierarchy order.
RECURSIVE AllChapterTitles(_)
AllChapterTitles(v) ==
    IF v = <<>> THEN <<>> ELSE TitlesOf(Head(v).chapters) \o AllChapterTitles(Tail(v))

\* The trimmed chapter-title lines of an input, in input order.
RECURSIVE InputChapterTitles(_)
InputChapterTitles(ls) ==
    IF ls = <<>> THEN <<>>
    ELSE (IF LineClass(Head(ls)) = "chapter_title" THEN <<strip(Head(ls))>> ELSE <<>>)
         \o InputChapterTitles(Tail(ls))

NotDefaultChapterTitle(title) == title # DEFAULT_CHAPTER_TITLE

\* C15 (as claimed): only default-titled placeholders are removed, so the
\* Chapters of the finished hierarchy that are not default-titled bear
\* exactly the chapter-title lines of the input, in input order.
C15_ChapterTitlesKept ==
    Finished =>
        SelectSeq(AllChapterTitles(volumes), NotDefaultChapterTitle)
            = InputChapterTitles(lines)

====
